---- MODULE Spec2Model ----
(***************************************************************************)
(* Model of the HTTP-first handler of POST /fetchAcncFinancials            *)
(* (src/server.js, lines 1-391): identifier validation, resolution of the  *)
(* text-extraction mode, the HTTP strategy, the browser fallback, the      *)
(* optional PDF text extraction and the release of the acquired clients.   *)
(*                                                                         *)
(* Text is a sequence of one-character strings.  Each running request has  *)
(* a record of the handler's local variables and a position (pc) naming    *)
(* the await it is suspended at.  What the network, the registry site and  *)
(* the browser answer is chosen nondeterministically at each await.        *)
(***************************************************************************)
EXTENDS Integers, Sequences, FiniteSets, TLC

(***************************************************************************)
(* Bounds of the model.                                                    *)
(***************************************************************************)
\* longest document listing (rows of the documents table) the site serves
MaxRows == 2
\* longest search-result table the site serves
MaxSearchRows == 2
\* most pages of a served PDF
MaxPages == 2

(***************************************************************************)
(* Configuration read at process start (server.js:15-17).                  *)
(***************************************************************************)
DEFAULT_PREVIEW_CHARS == 800
MAX_FULL_PDF_CHARS == 200000

\* A value that may be null or undefined in JavaScript is a tuple of at most
\* one element: <<>> is null / undefined, <<v>> is the value v.
None == <<>>
Some(v) == <<v>>

(***************************************************************************)
(* Characters and text.                                                    *)
(***************************************************************************)
Digits == <<"0", "1", "2", "3", "4", "5", "6", "7", "8", "9">>
UpperCase == <<"A", "B", "C", "D", "E", "F", "G", "H", "I", "J", "K", "L", "M",
               "N", "O", "P", "Q", "R", "S", "T", "U", "V", "W", "X", "Y", "Z">>
LowerCase == <<"a", "b", "c", "d", "e", "f", "g", "h", "i", "j", "k", "l", "m",
               "n", "o", "p", "q", "r", "s", "t", "u", "v", "w", "x", "y", "z">>

Range(s) == {s[i] : i \in 1..Len(s)}

\* \d
IsDigit(c) == c \in Range(Digits)

\* \w
IsWordChar(c) == c \in Range(Digits) \cup Range(UpperCase) \cup Range(LowerCase) \cup {"_"}

\* \s
IsSpace(c) == c \in {" ", "\n", "\t"}

\* the value of a decimal digit
DigitVal(c) == (CHOOSE i \in 1..10 : Digits[i] = c) - 1

\* String.prototype.toLowerCase on one character
LowerChar(c) ==
    IF c \in Range(UpperCase)
    THEN LowerCase[CHOOSE i \in 1..26 : UpperCase[i] = c]
    ELSE c

\* String.prototype.toLowerCase
toLowerCase(s) == [i \in 1..Len(s) |-> LowerChar(s[i])]

\* does the (lower-case) pattern p occur in s at position i, ignoring case
MatchesAtCI(s, p, i) ==
    /\ i >= 1
    /\ i + Len(p) - 1 <= Len(s)
    /\ \A k \in 1..Len(p) : LowerChar(s[i + k - 1]) = p[k]

\* /p/i.test(s) for a literal lower-case pattern p
ContainsCI(s, p) == \E i \in 1..Len(s) : MatchesAtCI(s, p, i)

\* String.prototype.trim
RECURSIVE TrimLeft(_)
TrimLeft(s) == IF s # <<>> /\ IsSpace(Head(s)) THEN TrimLeft(Tail(s)) ELSE s

RECURSIVE TrimRight(_)
TrimRight(s) ==
    IF s # <<>> /\ IsSpace(s[Len(s)]) THEN TrimRight(SubSeq(s, 1, Len(s) - 1)) ELSE s

trim(s) == TrimRight(TrimLeft(s))

\* .replace(/\s+/g, " "): every run of white space becomes one blank
RECURSIVE CollapseSpace(_)
CollapseSpace(s) ==
    IF s = <<>> THEN <<>>
    ELSE IF IsSpace(Head(s))
         THEN <<" ">> \o CollapseSpace(TrimLeft(s))
         ELSE <<Head(s)>> \o CollapseSpace(Tail(s))

\* stripTags on text that holds no markup: collapse white space, then trim
stripTags(html) == trim(CollapseSpace(html))

(***************************************************************************)
(* Identifier validation and text-extraction mode (server.js:130-140).     *)
(***************************************************************************)
\* String(req.body?.abn || "").replace(/\D/g, "")
StripNonDigits(raw) == SelectSeq(raw, IsDigit)

\* a validation that only asks for 11 digits or more: /^\d{11,}$/
IsValidAbnAtLeast(abn) == Len(abn) >= 11 /\ \A i \in 1..Len(abn) : IsDigit(abn[i])

\* /^\d{11}$/.test(abn)
IsValidAbn(abn) == Len(abn) = 11 /\ \A i \in 1..Len(abn) : IsDigit(abn[i])

\* spaceAbn: the grouped 2-3-3-3 form
spaceAbn(abn) ==
    SubSeq(abn, 1, 2) \o <<" ">> \o SubSeq(abn, 3, 5) \o <<" ">>
        \o SubSeq(abn, 6, 8) \o <<" ">> \o SubSeq(abn, 9, Len(abn))

ModeNone == <<"n", "o", "n", "e">>
ModePreview == <<"p", "r", "e", "v", "i", "e", "w">>
ModeFull == <<"f", "u", "l", "l">>

\* a resolution whose default is "preview" whatever the configuration
ResolvePdfTextModeIgnoringDefault(bodyMode, previewDefault) ==
    IF bodyMode \in {ModeNone, ModePreview, ModeFull} THEN bodyMode ELSE ModePreview

\* server.js:135-140
ResolvePdfTextMode(bodyMode, previewDefault) ==
    IF bodyMode \in {ModeNone, ModePreview, ModeFull}
    THEN bodyMode
    ELSE IF previewDefault THEN ModePreview ELSE ModeNone

(***************************************************************************)
(* URLs.                                                                   *)
(***************************************************************************)
Origin == <<"h", "t", "t", "p", "s", ":", "/", "/", "w", "w", "w", ".", "a", "c", "n", "c", ".", "g", "o", "v", ".", "a", "u">>

StartsWith(s, p) == Len(p) <= Len(s) /\ SubSeq(s, 1, Len(p)) = p

EndsWith(s, p) == Len(p) <= Len(s) /\ SubSeq(s, Len(s) - Len(p) + 1, Len(s)) = p

\* absUrl(href, base) for a base that is the registry's origin or a page of it
absUrl(href) ==
    IF StartsWith(href, <<"h", "t", "t", "p">>) THEN href
    ELSE IF StartsWith(href, <<"/">>) THEN Origin \o href
    ELSE Origin \o <<"/">> \o href

(***************************************************************************)
(* Document classification (server.js:115-122 and 314-321).                *)
(***************************************************************************)
KwAnnual == <<"a", "n", "n", "u", "a", "l", " ", "i", "n", "f", "o", "r", "m", "a", "t", "i", "o", "n", " ", "s", "t", "a", "t", "e", "m", "e", "n", "t">>
KwAis == <<"a", "i", "s">>
KwFinancial == <<"f", "i", "n", "a", "n", "c", "i", "a", "l">>
KwDownload == <<"d", "o", "w", "n", "l", "o", "a", "d">>
KwView == <<"v", "i", "e", "w">>

\* is there a match of /\b(20\d{2})\b/ starting at position i of s
YearMatchAt(s, i) ==
    /\ i >= 1
    /\ i + 3 <= Len(s)
    /\ s[i] = "2"
    /\ s[i + 1] = "0"
    /\ IsDigit(s[i + 2])
    /\ IsDigit(s[i + 3])
    /\ (i = 1 \/ ~IsWordChar(s[i - 1]))
    /\ (i + 3 = Len(s) \/ ~IsWordChar(s[i + 4]))

\* const ym = title.match(/\b(20\d{2})\b/); year = ym ? parseInt(ym[1], 10) : null
YearOf(title) ==
    IF \E i \in 1..Len(title) : YearMatchAt(title, i)
    THEN LET i == CHOOSE j \in 1..Len(title) :
                      /\ YearMatchAt(title, j)
                      /\ \A k \in 1..(j - 1) : ~YearMatchAt(title, k)
         IN  Some(2000 + 10 * DigitVal(title[i + 2]) + DigitVal(title[i + 3]))
    ELSE None

TypeAis == "AIS"
TypeFr == "Financial Report"
TypeOther == "Other"

\* /annual information statement|ais/i ? "AIS" : /financial/i ? "Financial Report" : "Other"
TypeOf(title) ==
    IF ContainsCI(title, KwAnnual) \/ ContainsCI(title, KwAis) THEN TypeAis
    ELSE IF ContainsCI(title, KwFinancial) THEN TypeFr
    ELSE TypeOther

\* docs.push({ year, type, source_url: url, title })
MkDoc(title, href) ==
    [year |-> YearOf(title), type |-> TypeOf(title),
     source_url |-> absUrl(href), title |-> title]

(***************************************************************************)
(* A listing row as the site serves it: the text of its first cell and its *)
(* anchors in order.  An anchor has an href (empty when the attribute is   *)
(* missing), a text and a visibility in the rendered page.                 *)
(***************************************************************************)
\* anchors of the row that carry an href attribute, in order
WithHref(anchors) == SelectSeq(anchors, LAMBDA a : a.href # <<>>)

\* /<a[^>]+href="([^"]+\.pdf)"[^>]*>/i
IsPdfAnchor(a) == a.href # <<>> /\ EndsWith(toLowerCase(a.href), <<".", "p", "d", "f">>)

\* /<a[^>]+href="([^"]+)"[^>]*>(?:\s*(?:download|view|ais)[^<]*)<\/a>/i
IsSuggestiveAnchor(a) ==
    /\ a.href # <<>>
    /\ LET t == TrimLeft(a.text)
       IN  MatchesAtCI(t, KwDownload, 1) \/ MatchesAtCI(t, KwView, 1) \/ MatchesAtCI(t, KwAis, 1)

\* a linkMatch that tries the suggestive text before the .pdf href
linkMatchTextFirst(anchors) ==
    LET pdfs == SelectSeq(anchors, IsPdfAnchor)
        sugg == SelectSeq(anchors, IsSuggestiveAnchor)
        any  == WithHref(anchors)
    IN  IF sugg # <<>> THEN Head(sugg).href
        ELSE IF pdfs # <<>> THEN Head(pdfs).href
        ELSE IF any # <<>> THEN Head(any).href
        ELSE <<>>

\* the three-tier linkMatch of server.js:108-111; empty when no anchor matches
linkMatch(anchors) ==
    LET pdfs == SelectSeq(anchors, IsPdfAnchor)
        sugg == SelectSeq(anchors, IsSuggestiveAnchor)
        any  == WithHref(anchors)
    IN  IF pdfs # <<>> THEN Head(pdfs).href
        ELSE IF sugg # <<>> THEN Head(sugg).href
        ELSE IF any # <<>> THEN Head(any).href
        ELSE <<>>

\* parseDocsFromHtml (server.js:99-127) on the rows of the served listing
RECURSIVE parseDocsFromHtml(_)
parseDocsFromHtml(rows) ==
    IF rows = <<>> THEN <<>>
    ELSE LET row == Head(rows)
             titleText == stripTags(row.title)
             link == linkMatch(row.anchors)
         IN  IF titleText = <<>> \/ link = <<>>
             THEN parseDocsFromHtml(Tail(rows))
             ELSE <<MkDoc(titleText, link)>> \o parseDocsFromHtml(Tail(rows))
\* hasText: /download|view|ais/i on a rendered anchor
HasSuggestiveText(a) ==
    ContainsCI(a.text, KwDownload) \/ ContainsCI(a.text, KwView) \/ ContainsCI(a.text, KwAis)

\* the row loop of the browser strategy (server.js:303-324) on the rendered rows
RECURSIVE readRows(_)
readRows(rows) ==
    IF rows = <<>> THEN <<>>
    ELSE LET r == Head(rows)
             title == trim(r.title)
             cand == SelectSeq(r.anchors, HasSuggestiveText)
         IN  IF cand = <<>> \/ ~Head(cand).visible \/ Head(cand).href = <<>>
             THEN readRows(Tail(rows))
             ELSE <<MkDoc(title, Head(cand).href)>> \o readRows(Tail(rows))

(***************************************************************************)
(* Latest selection (server.js:188-195 and 326-333).                       *)
(***************************************************************************)
\* Array.prototype.sort((a, b) => b.year - a.year): a stable sort, descending
RECURSIVE InsertDesc(_, _)
\* an insertion that puts a document before those of the same year
InsertDescUnstable(d, sorted) ==
    IF sorted = <<>> THEN <<d>>
    ELSE IF Head(sorted).year[1] > d.year[1]
         THEN <<Head(sorted)>> \o InsertDesc(d, Tail(sorted))
         ELSE <<d>> \o sorted

InsertDesc(d, sorted) ==
    IF sorted = <<>> THEN <<d>>
    ELSE IF Head(sorted).year[1] >= d.year[1]
         THEN <<Head(sorted)>> \o InsertDesc(d, Tail(sorted))
         ELSE <<d>> \o sorted

RECURSIVE SortByYearDesc(_)
SortByYearDesc(ds) ==
    IF ds = <<>> THEN <<>>
    ELSE InsertDesc(ds[Len(ds)], SortByYearDesc(SubSeq(ds, 1, Len(ds) - 1)))

\* docs.filter(d => d.type === type && Number.isInteger(d.year)).sort(...)[0] || null
Latest(docs, type) ==
    LET cand == SelectSeq(docs, LAMBDA d : d.type = type /\ d.year # None)
        sorted == SortByYearDesc(cand)
    IN  IF sorted = <<>> THEN None ELSE Some(Head(sorted))

(***************************************************************************)
(* PDF text.  A text is represented by its length; a decodable PDF by the  *)
(* lengths of the texts of its pages (items joined by blanks, plus "\n").  *)
(***************************************************************************)
Min(a, b) == IF a <= b THEN a ELSE b

\* the page loop of pdfTextFromBuffer (server.js:60-67): the length of out and
\* the number of pages decoded, starting from out of length acc after i pages
RECURSIVE PageLoop(_, _, _)
PageLoop(pages, i, acc) ==
    IF i >= Len(pages) THEN [out |-> acc, decoded |-> i]
    ELSE LET out == acc + pages[i + 1]
         IN  IF out > MAX_FULL_PDF_CHARS
             THEN [out |-> out, decoded |-> i + 1]
             ELSE PageLoop(pages, i + 1, out)

pdfTextFromBuffer(pages) == PageLoop(pages, 0, 0)

\* What one fetch of the PDF URL can give.  kind is one of
\*   "throw"    the request rejects (network error, timeout)
\*   "status"   a non-success status
\*   "notpdf"   a body that does not start with %PDF (an empty body included)
\*   "corrupt"  a %PDF body that pdfjs fails to decode
\*   "pdf"      a %PDF body with the given pages
\* an attempt that returns the decoded text whole, without .slice(0, charLimit)
PdfAttemptUnsliced(body, charLimit) ==
    IF body.kind = "pdf"
    THEN Some(pdfTextFromBuffer(body.pages).out)
    ELSE IF body.kind = "corrupt" THEN Some(0)
    ELSE None

\* One attempt of extractPdfTextVia (server.js:72-81 or 83-95): the returned
\* text, or None when the attempt falls through to what follows it.
PdfAttempt(body, charLimit) ==
    IF body.kind = "pdf"
    THEN Some(Min(pdfTextFromBuffer(body.pages).out, charLimit))
    ELSE IF body.kind = "corrupt" THEN Some(Min(0, charLimit))
    ELSE None

\* cap = pdfTextMode === "full" ? MAX_FULL_PDF_CHARS : DEFAULT_PREVIEW_CHARS
CapFor(pdfTextMode) ==
    IF pdfTextMode = ModeFull THEN MAX_FULL_PDF_CHARS ELSE DEFAULT_PREVIEW_CHARS

\* is the value truthy: neither null nor the empty text
Truthy(extracted) == extracted # None /\ extracted[1] > 0

(***************************************************************************)
(* The search-results page.  A result row has the text of its last column  *)
(* and its links under /charity/charities/ in order; a link names the      *)
(* organisation it leads to, says whether its path holds a 36-character id *)
(* and how its path ends ("profile", "documents" or "other").              *)
(***************************************************************************)
\* new RegExp(`(?:${abn}|${abnSp})`).test(tr), case-sensitive
Contains(s, p) ==
    \E i \in 1..(Len(s) - Len(p) + 1) : SubSeq(s, i, i + Len(p) - 1) = p

RowMatchesAbn(row, abn) ==
    Contains(row.abnText, abn) \/ Contains(row.abnText, spaceAbn(abn))

\* the three href patterns of server.js:167-176 on one row; None without a link
rawLink(tr) ==
    LET t1 == SelectSeq(tr.links, LAMBDA l : l.uuid /\ l.tail \in {"profile", "documents"})
        t2 == SelectSeq(tr.links, LAMBDA l : l.tail = "profile")
    IN  IF t1 # <<>> THEN Some(Head(t1))
        ELSE IF t2 # <<>> THEN Some(Head(t2))
        ELSE IF tr.links # <<>> THEN Some(Head(tr.links))
        ELSE None

\* server.js:163-176: the link of the first row that contains the identifier
httpFindLink(rows, abn) ==
    LET hits == SelectSeq(rows, LAMBDA row : RowMatchesAbn(row, abn))
    IN  IF hits = <<>> THEN None ELSE rawLink(Head(hits))

\* u.pathname = u.pathname.replace(/\/profile\/?$/, "/documents/")
toDocuments(link) ==
    IF link.tail = "profile" THEN [link EXCEPT !.tail = "documents"] ELSE link

\* .replace(/\/documents\/?$/, "/profile")
toProfile(u) ==
    IF u.tail = "documents" THEN [u EXCEPT !.tail = "profile"] ELSE u

\* server.js:264-274: the link the browser strategy clicks: the first link of
\* the rows whose last column shows the identifier if there is one, otherwise
\* and it is visible (hitVisible), otherwise the first link of the page; None
\* when the page has no link at all
RECURSIVE AllLinks(_)
AllLinks(rows) ==
    IF rows = <<>> THEN <<>> ELSE Head(rows).links \o AllLinks(Tail(rows))

browserFindLink(rows, abn, hitVisible) ==
    LET hits == AllLinks(SelectSeq(rows, LAMBDA row : RowMatchesAbn(row, abn)))
        all  == AllLinks(rows)
    IN  IF hits # <<>> /\ hitVisible THEN Some(Head(hits))
        ELSE IF all # <<>> THEN Some(Head(all))
        ELSE None

(***************************************************************************)
(* Inputs: request bodies and what the site serves.                        *)
(***************************************************************************)
Abn11 == <<"1", "2", "3", "4", "5", "6", "7", "8", "9", "0", "1">>
AbnOther == <<"1", "0", "9", "8", "7", "6", "5", "4", "3", "2", "1">>

\* values of body.abn: well-formed, grouped, too short, too long, padded with
\* letters, missing
RawAbns ==
    { Abn11,
      spaceAbn(Abn11),
      SubSeq(Abn11, 1, 10),
      Abn11 \o <<"2">>,
      <<"A", "B", "N", " ">> \o SubSeq(Abn11, 1, 10) \o <<"x">>,
      <<>> }

\* values of body.pdfText: missing, the three modes, an upper-case one, another
RawModes ==
    { <<>>, ModeNone, ModePreview, <<"F", "U", "L", "L">>, <<"a", "l", "l">> }

LinkA == [org |-> "A", uuid |-> TRUE, tail |-> "profile"]
LinkB == [org |-> "B", uuid |-> TRUE, tail |-> "profile"]

SearchRows ==
    { [abnText |-> Abn11, links |-> <<LinkA>>],
      [abnText |-> spaceAbn(Abn11), links |-> <<LinkA>>],
      [abnText |-> Abn11, links |-> <<>>],
      [abnText |-> AbnOther, links |-> <<LinkB>>] }

SeqsUpTo(S, n) == UNION {[1..k -> S] : k \in 0..n}

SearchPages == SeqsUpTo(SearchRows, MaxSearchRows)

TitleAis22 == <<"A", "I", "S", " ", "2", "0", "2", "2">>
TitleFin21 == <<"F", "i", "n", "a", "n", "c", "i", "a", "l", " ", "2", "0", "2", "1">>
TitleFin23 == <<" ", "f", "i", "n", "a", "n", "c", "i", "a", "l", " ", " ", "2", "0", "2", "3">>
TitleFin == <<"F", "i", "n", "a", "n", "c", "i", "a", "l">>

Anchor(href, text, visible) == [href |-> href, text |-> text, visible |-> visible]

TextDownload == <<"D", "o", "w", "n", "l", "o", "a", "d">>
TextView == <<"V", "i", "e", "w", " ", "A", "I", "S">>
TextReport == <<"R", "e", "p", "o", "r", "t">>

ListingRows ==
    { [title |-> TitleAis22, anchors |-> <<Anchor(<<"/", "a", "2", "2", ".", "p", "d", "f">>, TextView, TRUE)>>],
      [title |-> TitleFin21, anchors |-> <<Anchor(<<"/", "f", "2", "1", ".", "p", "d", "f">>, TextDownload, TRUE)>>],
      [title |-> TitleFin23, anchors |-> <<Anchor(<<"/", "f", "2", "3">>, TextDownload, TRUE)>>],
      [title |-> TitleFin, anchors |-> <<Anchor(<<"/", "f", ".", "p", "d", "f">>, TextDownload, TRUE)>>],
      [title |-> TitleFin21, anchors |-> <<Anchor(<<"/", "g", "2", "1", ".", "p", "d", "f">>, TextReport, TRUE)>>],
      [title |-> <<>>, anchors |-> <<Anchor(<<"/", "x", ".", "p", "d", "f">>, TextDownload, TRUE)>>] }

Listings == SeqsUpTo(ListingRows, MaxRows)

\* Rows for the row parsers alone: every title below with every anchor list.
\* Titles: the two AIS wordings, "ais" inside a longer word with and without
\* "financial", both rules at once, a number that only holds a year, none of
\* the words, white space only, empty.
ParserTitles ==
    { TitleAis22,
      TitleFin21,
      <<"A", "n", "n", "u", "a", "l", " ", "i", "n", "f", "o", "r", "m", "a", "t", "i", "o", "n", " ", "S", "t", "a", "t", "e", "m", "e", "n", "t">>,
      <<"R", "a", "i", "s", "e", " ", "f", "i", "n", "a", "n", "c", "i", "a", "l", " ", "2", "0", "2", "0">>,
      <<"P", "r", "a", "i", "s", "e">>,
      <<"A", "I", "S", " ", "F", "i", "n", "a", "n", "c", "i", "a", "l", " ", "2", "0", "1", "9">>,
      <<"N", "o", "t", "e", "s", " ", "1", "2", "0", "2", "0", " ", "2", "0", "2", "4", " ", "2", "0", "2", "2">>,
      <<" ", " ">>,
      <<>> }

\* Anchor lists: none; a .pdf behind a suggestive anchor; a suggestive anchor
\* behind another one; two other anchors; an anchor without href before one
\* with it.
ParserAnchors ==
    { <<>>,
      <<Anchor(<<"/", "v">>, TextView, TRUE), Anchor(<<"/", "p", ".", "P", "D", "F">>, TextReport, TRUE)>>,
      <<Anchor(<<"/", "o">>, TextReport, TRUE), Anchor(<<"/", "d">>, <<" ", "d", "o", "w", "n", "l", "o", "a", "d", " ", "n", "o", "w">>, TRUE)>>,
      <<Anchor(<<"/", "o">>, TextReport, TRUE), Anchor(<<"/", "q">>, TextReport, TRUE)>>,
      <<Anchor(<<>>, TextDownload, TRUE), Anchor(<<"/", "h">>, TextReport, TRUE)>> }

ParserRows == {[title |-> ti, anchors |-> an] : ti \in ParserTitles, an \in ParserAnchors}

\* listings of the rows above: one row each, and two rows in both orders
ParserListings ==
    {<<>>} \cup {<<row>> : row \in ParserRows}
        \cup {<<a, b>> : a \in ListingRows, b \in ListingRows}

\* a page of one character (the "\n") and a page as long as the full cap
PageLens == {1, MAX_FULL_PDF_CHARS}

PdfBodies ==
    {[kind |-> k, pages |-> <<>>] : k \in {"throw", "status", "notpdf", "corrupt"}}
        \cup {[kind |-> "pdf", pages |-> ps] : ps \in SeqsUpTo(PageLens, MaxPages)}

(***************************************************************************)
(* State.                                                                  *)
(*   h[r]             the locals of the handler run for request r          *)
(*   active           the requests that are served                         *)
(*   PREVIEW_DEFAULT  the configured default (server.js:15)                *)
(*   scope            what the site and the runtime may answer in this run: *)
(*                    "full" (every input below, releases resolve),         *)
(*                    "data" (every request mode, listing and PDF body,     *)
(*                    few search pages),                                    *)
(*                    "parse" (every title and anchor list for the row      *)
(*                    parsers, few other inputs),                           *)
(*                    "cleanup" (few inputs, a release may reject),         *)
(*                    "pair" (few inputs, two requests in flight)           *)
(***************************************************************************)
VARIABLES h, active, PREVIEW_DEFAULT, scope

vars == <<h, active, PREVIEW_DEFAULT, scope>>

Requests == {1, 2}

\* A client (rq, browser, ctx, page, rrq) is "unset" until it is acquired,
\* then "open", and "released" once its close / dispose has been invoked.
\* swallowed holds the operations whose rejection a .catch(() => {}) discarded.
InitLocal ==
    [pc |-> "idle",
     abn |-> <<>>, bodyMode |-> <<>>, pdfTextMode |-> <<>>,
     rq |-> "unset", browser |-> "unset", ctx |-> "unset", page |-> "unset",
     rrq |-> "unset",
     strategy |-> "none",
     u |-> None, docs |-> <<>>, latestAis |-> None, latestFr |-> None,
     extracted |-> None,
     sent |-> <<>>,
     thrown |-> None,
     swallowed |-> {},
     ops |-> <<>>]

Init ==
    /\ h = [r \in Requests |-> InitLocal]
    /\ active = {1}
    /\ PREVIEW_DEFAULT \in BOOLEAN
    /\ scope = "full"

\* one request, every mode, listing and PDF body, few search pages
InitData ==
    /\ h = [r \in Requests |-> InitLocal]
    /\ active = {1}
    /\ PREVIEW_DEFAULT \in BOOLEAN
    /\ scope = "data"

\* one request, listings of every title and anchor list, few other inputs
InitParse ==
    /\ h = [r \in Requests |-> InitLocal]
    /\ active = {1}
    /\ PREVIEW_DEFAULT \in BOOLEAN
    /\ scope = "parse"

\* one request, few inputs, and a close / dispose may reject
InitCleanup ==
    /\ h = [r \in Requests |-> InitLocal]
    /\ active = {1}
    /\ PREVIEW_DEFAULT \in BOOLEAN
    /\ scope = "cleanup"

\* two requests in flight at once, few inputs
InitPair ==
    /\ h = [r \in Requests |-> InitLocal]
    /\ active = Requests
    /\ PREVIEW_DEFAULT = TRUE
    /\ scope = "pair"

\* an operation on the network or on the browser is recorded when it is invoked
Op(s, name) == [s EXCEPT !.ops = Append(@, name)]

\* op().catch(() => {}): a rejection is discarded
Swallow(s, name, ok) == IF ok THEN s ELSE [s EXCEPT !.swallowed = @ \cup {name}]

\* res.status(code).json(body)
Send(s, code, body) == [s EXCEPT !.sent = Append(@, [status |-> code, body |-> body])]

(***************************************************************************)
(* Exits of the try blocks.                                                *)
(***************************************************************************)
\* server.js:131-132: the client error, returned before the try block
RespondInvalid(s) ==
    [Send(s, 400, [error |-> "ABN must be 11 digits"]) EXCEPT !.pc = "done"]

\* a catch block that answers with the error of the HTTP strategy and does
\* not fall back
HttpFailNoFallback(s, msg) ==
    [Send(s, 500, [error |-> msg, step |-> "http-strategy", abn |-> s.abn])
        EXCEPT !.pc = "close_page"]

\* server.js:230-236: an error thrown in the HTTP strategy enters the fallback
HttpFail(s, msg) == [s EXCEPT !.pc = "launch", !.strategy = "browser"]

\* server.js:374-379: an error thrown in the inner try of the fallback
BrowserFail(s, msg) ==
    [Send(s, 500, [error |-> msg, step |-> "browser-fallback", abn |-> s.abn])
        EXCEPT !.pc = "close_page"]

\* an error thrown in the catch block outside its inner try (server.js:237-258)
\* leaves the handler through the finally block: the handler's promise rejects
Escape(s, msg) == [s EXCEPT !.thrown = Some(msg), !.pc = "close_page"]

\* optional fields that test the extracted text against null only, so that an
\* empty text is reported
TextFieldsNotNull(s) ==
    IF s.extracted = None THEN <<>>
    ELSE IF s.pdfTextMode = ModeFull
         THEN [pdf_text |-> s.extracted[1]]
         ELSE [preview |-> [financial_report_text_preview |-> s.extracted[1]]]

\* the optional fields of the success body (server.js:204-210, 226-227)
TextFields(s) ==
    IF ~Truthy(s.extracted) THEN <<>>
    ELSE IF s.pdfTextMode = ModeFull
         THEN [pdf_text |-> s.extracted[1]]
         ELSE [preview |-> [financial_report_text_preview |-> s.extracted[1]]]

LatestRef(d) ==
    IF d = None THEN None ELSE Some([year |-> d[1].year[1], source_url |-> d[1].source_url])

\* server.js:214-229 and 358-373
SuccessBody(s) ==
    [abn |-> s.abn,
     acnc_detail_url |-> toProfile(s.u[1]),
     latest |-> [financial_report |-> LatestRef(s.latestFr), ais |-> LatestRef(s.latestAis)],
     all_documents |-> s.docs,
     notes |-> <<>>] @@ TextFields(s)

RespondOk(s) == [Send(s, 200, SuccessBody(s)) EXCEPT !.pc = "close_page"]

\* server.js:200: latestFr && pdfTextMode !== "none"
WantsTextHttp(s) == s.latestFr # None /\ s.pdfTextMode # ModeNone

\* server.js:338: latestFr && (pdfTextMode === "preview" || pdfTextMode === "full")
WantsTextBrowser(s) == s.latestFr # None /\ s.pdfTextMode \in {ModePreview, ModeFull}

(***************************************************************************)
(* The handler, one operator per suspension point: each gives the locals   *)
(* after the awaited operation has answered and the synchronous code that  *)
(* follows it has run up to the next await.                                *)
(***************************************************************************)
\* server.js:129-147
Start(s, rawAbn, rawMode, previewDefault) ==
    LET abn == StripNonDigits(rawAbn)
        bodyMode == toLowerCase(rawMode)
        t == [s EXCEPT !.abn = abn]
    IN  IF ~IsValidAbn(abn) THEN RespondInvalid(t)
        ELSE [t EXCEPT !.bodyMode = bodyMode,
                       !.pdfTextMode = ResolvePdfTextMode(bodyMode, previewDefault),
                       !.strategy = "http",
                       !.pc = "rq_new"]

\* server.js:150-154: rq = await pwRequest.newContext(...)
RqNew(s, ok) ==
    LET t == Op(s, "rq.new")
    IN  IF ok THEN [t EXCEPT !.rq = "open", !.pc = "search"]
        ELSE HttpFail(t, "newContext failed")

\* a search step that answers "not found" itself instead of throwing
SearchNotFoundIsFinal(s, answer) ==
    LET t == Op(s, "rq.get search")
        link == httpFindLink(answer.rows, s.abn)
    IN  IF answer.kind = "throw" THEN HttpFail(t, "Timeout 12000ms exceeded")
        ELSE IF answer.kind = "status" THEN HttpFail(t, "Search fetch 503")
        ELSE IF link = None
             THEN [Send(t, 500, [error |-> "No matching charity link found for ABN",
                                 step |-> "browser-fallback", abn |-> s.abn])
                      EXCEPT !.pc = "close_page"]
        ELSE [t EXCEPT !.u = Some(toDocuments(link[1])), !.pc = "docs"]

\* server.js:156-181: the search fetch; answer.kind is "throw", "status" or "ok"
Search(s, answer) ==
    LET t == Op(s, "rq.get search")
        link == httpFindLink(answer.rows, s.abn)
    IN  IF answer.kind = "throw" THEN HttpFail(t, "Timeout 12000ms exceeded")
        ELSE IF answer.kind = "status" THEN HttpFail(t, "Search fetch 503")
        ELSE IF link = None THEN HttpFail(t, "No matching charity link found for ABN")
        ELSE [t EXCEPT !.u = Some(toDocuments(link[1])), !.pc = "docs"]

\* a success path of the HTTP strategy that answers without returning, and
\* goes on into the fallback
DocsFallsThrough(s, answer) ==
    LET t == Op(s, "rq.get docs")
        docs == parseDocsFromHtml(answer.rows)
        w == [t EXCEPT !.docs = docs,
                       !.latestAis = Latest(docs, TypeAis),
                       !.latestFr = Latest(docs, TypeFr)]
    IN  IF answer.kind = "throw" THEN HttpFail(t, "Timeout 15000ms exceeded")
        ELSE IF answer.kind = "status" THEN HttpFail(t, "Documents fetch 503")
        ELSE IF WantsTextHttp(w) THEN [w EXCEPT !.pc = "pdf_rq"]
        ELSE [RespondOk(w) EXCEPT !.pc = "launch"]

\* server.js:183-229 up to the await of line 203
Docs(s, answer) ==
    LET t == Op(s, "rq.get docs")
        docs == parseDocsFromHtml(answer.rows)
        w == [t EXCEPT !.docs = docs,
                       !.latestAis = Latest(docs, TypeAis),
                       !.latestFr = Latest(docs, TypeFr)]
    IN  IF answer.kind = "throw" THEN HttpFail(t, "Timeout 15000ms exceeded")
        ELSE IF answer.kind = "status" THEN HttpFail(t, "Documents fetch 503")
        ELSE IF WantsTextHttp(w) THEN [w EXCEPT !.pc = "pdf_rq"]
        ELSE RespondOk(w)

\* where the handler goes on once extractPdfTextVia has returned
AfterExtract(s, extracted) ==
    LET t == [s EXCEPT !.extracted = extracted]
    IN  IF s.strategy = "http" THEN RespondOk(t) ELSE [t EXCEPT !.pc = "rrq_dispose"]

\* server.js:72-81: the attempt through the request context
PdfViaRq(s, body) ==
    LET t == Op(s, "rq.get pdf")
        got == PdfAttempt(body, CapFor(s.pdfTextMode))
    IN  IF got # None THEN AfterExtract(t, got) ELSE [t EXCEPT !.pc = "pdf_fetch"]

\* an attempt through node-fetch that is made again while it gives no PDF
PdfViaFetchAgain(s, body) ==
    LET t == Op(s, "fetch pdf")
        got == PdfAttempt(body, CapFor(s.pdfTextMode))
    IN  IF got # None THEN AfterExtract(t, got) ELSE [t EXCEPT !.pc = "pdf_fetch"]

\* server.js:83-96: the attempt through node-fetch, and return null after it
PdfViaFetch(s, body) ==
    AfterExtract(Op(s, "fetch pdf"), PdfAttempt(body, CapFor(s.pdfTextMode)))

(***************************************************************************)
(* The browser fallback (server.js:237-379).                               *)
(***************************************************************************)
\* server.js:237-244: browser = await chromium.launch(...)
Launch(s, ok) ==
    LET t == Op(s, "chromium.launch")
    IN  IF ok THEN [t EXCEPT !.browser = "open", !.pc = "new_context"]
        ELSE Escape(t, "browserType.launch: failed")

\* server.js:245-249: ctx = await browser.newContext(...)
NewContext(s, ok) ==
    LET t == Op(s, "browser.newContext")
    IN  IF ok THEN [t EXCEPT !.ctx = "open", !.pc = "new_page"]
        ELSE Escape(t, "browser.newContext: failed")

\* server.js:250: page = await ctx.newPage()
NewPage(s, ok) ==
    LET t == Op(s, "ctx.newPage")
    IN  IF ok THEN [t EXCEPT !.page = "open", !.pc = "goto_search"]
        ELSE Escape(t, "context.newPage: failed")

\* server.js:253-261: await goto(searchUrl)
GotoSearch(s, ok) ==
    LET t == Op(s, "page.goto search")
    IN  IF ok THEN [t EXCEPT !.pc = "click"]
        ELSE BrowserFail(t, "page.goto: Timeout 12000ms exceeded")

\* server.js:263-277: locate the link, wait for it and click it
Click(s, rows, hitVisible, ok) ==
    LET link == browserFindLink(rows, s.abn, hitVisible)
        t == Op(s, "link.click")
    IN  IF link = None THEN BrowserFail(s, "locator.waitFor: Timeout 8000ms exceeded")
        ELSE IF ~ok THEN BrowserFail(t, "locator.click: failed")
        ELSE [t EXCEPT !.u = link, !.pc = "goto_docs"]

\* a navigation to the documents view whose failure is thrown to catch (e)
GotoDocsUncaught(s, ok) ==
    LET t == Op(s, "page.goto docs")
    IN  IF ok THEN [t EXCEPT !.u = Some(toDocuments(s.u[1])), !.pc = "reveal"]
        ELSE BrowserFail(t, "page.goto: Timeout 20000ms exceeded")

\* server.js:279-283: the navigation to the documents view; its failure is
\* swallowed by .catch(() => {}) and the page stays where it was
GotoDocs(s, ok) ==
    LET t == Op(s, "page.goto docs")
    IN  IF ok THEN [t EXCEPT !.u = Some(toDocuments(s.u[1])), !.pc = "reveal"]
        ELSE [Swallow(t, "page.goto docs", FALSE) EXCEPT !.pc = "reveal"]

\* server.js:285-297: click the tab when no row is visible and the tab is
Reveal(s, firstRowVisible, tabVisible, ok) ==
    IF ~firstRowVisible /\ tabVisible
    THEN LET t == Op(s, "tab.click")
         IN  IF ok THEN [t EXCEPT !.pc = "rows"]
             ELSE BrowserFail(t, "locator.click: failed")
    ELSE [s EXCEPT !.pc = "rows"]

\* server.js:299-338: count the rows, read them, select the latest
Rows(s, answer) ==
    LET t == Op(s, "rows.count")
        docs == readRows(answer.rows)
        w == [t EXCEPT !.docs = docs,
                       !.latestAis = Latest(docs, TypeAis),
                       !.latestFr = Latest(docs, TypeFr)]
    IN  IF answer.kind = "throw" THEN BrowserFail(t, "locator.count: failed")
        ELSE IF Len(answer.rows) = 0 THEN BrowserFail(t, "No annual reporting rows found")
        ELSE IF WantsTextBrowser(w) THEN [w EXCEPT !.pc = "rrq_new"]
        ELSE RespondOk(w)

\* server.js:339-343: const rrq = await pwRequest.newContext(...)
RrqNew(s, ok) ==
    LET t == Op(s, "rrq.new")
    IN  IF ok THEN [t EXCEPT !.rrq = "open", !.pc = "pdf_rq"]
        ELSE BrowserFail(t, "newContext failed")

\* server.js:352-373: finally { await rrq.dispose().catch(() => {}) }, then respond
RrqDispose(s, ok) ==
    RespondOk([Swallow(Op(s, "rrq.dispose"), "rrq.dispose", ok) EXCEPT !.rrq = "released"])

(***************************************************************************)
(* The finally block (server.js:380-386).                                  *)
(***************************************************************************)
\* if (c) await c.close().catch(() => {})
Release(s, client, name, ok) ==
    IF s[client] = "unset" THEN s
    ELSE [Swallow(Op(s, name), name, ok) EXCEPT ![client] = "released"]

\* a close whose rejection is not caught: it leaves the finally block
ClosePageUncaught(s, ok) ==
    IF s.page = "unset" \/ ok
    THEN [Release(s, "page", "page.close", TRUE) EXCEPT !.pc = "close_ctx"]
    ELSE [Op(s, "page.close") EXCEPT !.thrown = Some("page.close failed"), !.pc = "done"]

ClosePage(s, ok) == [Release(s, "page", "page.close", ok) EXCEPT !.pc = "close_ctx"]

CloseCtx(s, ok) == [Release(s, "ctx", "ctx.close", ok) EXCEPT !.pc = "close_browser"]

CloseBrowser(s, ok) ==
    [Release(s, "browser", "browser.close", ok) EXCEPT !.pc = "dispose_rq"]

\* a finally block that disposes the request context only when no browser
\* was launched
DisposeRqUnlessBrowser(s, ok) ==
    IF s.browser = "unset" THEN [Release(s, "rq", "rq.dispose", ok) EXCEPT !.pc = "done"]
    ELSE [s EXCEPT !.pc = "done"]

DisposeRq(s, ok) == [Release(s, "rq", "rq.dispose", ok) EXCEPT !.pc = "done"]

\* The inputs of a run: all of them in scope "full", a few of some otherwise.
RawAbnsIn(sc) == IF sc = "full" THEN RawAbns ELSE {Abn11, SubSeq(Abn11, 1, 10)}

RawModesIn(sc) == IF sc \in {"full", "data"} THEN RawModes ELSE {<<>>}

SearchPagesIn(sc) ==
    IF sc = "full" THEN SearchPages
    ELSE {<<>>, <<[abnText |-> Abn11, links |-> <<LinkA>>]>>}

ListingsIn(sc) ==
    IF sc \in {"full", "data"} THEN Listings
    ELSE IF sc = "parse" THEN ParserListings
    ELSE {<<>>,
          <<[title |-> TitleFin21,
             anchors |-> <<Anchor(<<"/", "f", "2", "1", ".", "p", "d", "f">>,
                                  TextDownload, TRUE)>>]>>}

PdfBodiesIn(sc) ==
    IF sc \in {"full", "data"} THEN PdfBodies
    ELSE {[kind |-> "throw", pages |-> <<>>], [kind |-> "pdf", pages |-> <<1>>]}

\* whether a close / dispose resolves (TRUE) or rejects (FALSE)
ReleaseOutcomes(sc) == IF sc = "cleanup" THEN BOOLEAN ELSE {TRUE}

(***************************************************************************)
(* Actions: request r takes the step it is suspended at.                   *)
(***************************************************************************)
Answers(pages) ==
    {[kind |-> k, rows |-> <<>>] : k \in {"throw", "status"}}
        \cup {[kind |-> "ok", rows |-> rows] : rows \in pages}

At(r, pc) == r \in active /\ h[r].pc = pc

\* a step of a handler whose rq is one variable of the module, shared by all
\* the requests in flight
StepSharingRq(r, s) ==
    /\ h' = [q \in Requests |-> IF q = r THEN s ELSE [h[q] EXCEPT !.rq = s.rq]]
    /\ UNCHANGED <<active, PREVIEW_DEFAULT, scope>>

\* the locals are those of the handler's own invocation (server.js:145-146:
\* let rq; let browser, ctx, page;), the configuration is never assigned
Step(r, s) == h' = [h EXCEPT ![r] = s] /\ UNCHANGED <<active, PREVIEW_DEFAULT, scope>>

DoStart(r) ==
    /\ At(r, "idle")
    /\ \E rawAbn \in RawAbnsIn(scope), rawMode \in RawModesIn(scope) :
           Step(r, Start(h[r], rawAbn, rawMode, PREVIEW_DEFAULT))

DoRqNew(r) == At(r, "rq_new") /\ \E ok \in BOOLEAN : Step(r, RqNew(h[r], ok))

DoSearch(r) ==
    At(r, "search") /\ \E answer \in Answers(SearchPagesIn(scope)) : Step(r, Search(h[r], answer))

DoDocs(r) ==
    At(r, "docs") /\ \E answer \in Answers(ListingsIn(scope)) : Step(r, Docs(h[r], answer))

DoPdfViaRq(r) ==
    At(r, "pdf_rq") /\ \E body \in PdfBodiesIn(scope) : Step(r, PdfViaRq(h[r], body))

DoPdfViaFetch(r) ==
    At(r, "pdf_fetch") /\ \E body \in PdfBodiesIn(scope) : Step(r, PdfViaFetch(h[r], body))

DoLaunch(r) == At(r, "launch") /\ \E ok \in BOOLEAN : Step(r, Launch(h[r], ok))

DoNewContext(r) ==
    At(r, "new_context") /\ \E ok \in BOOLEAN : Step(r, NewContext(h[r], ok))

DoNewPage(r) == At(r, "new_page") /\ \E ok \in BOOLEAN : Step(r, NewPage(h[r], ok))

DoGotoSearch(r) ==
    At(r, "goto_search") /\ \E ok \in BOOLEAN : Step(r, GotoSearch(h[r], ok))

DoClick(r) ==
    /\ At(r, "click")
    /\ \E rows \in SearchPagesIn(scope), hitVisible \in BOOLEAN, ok \in BOOLEAN :
           Step(r, Click(h[r], rows, hitVisible, ok))

DoGotoDocs(r) == At(r, "goto_docs") /\ \E ok \in BOOLEAN : Step(r, GotoDocs(h[r], ok))

DoReveal(r) ==
    /\ At(r, "reveal")
    /\ \E firstRowVisible \in BOOLEAN, tabVisible \in BOOLEAN, ok \in BOOLEAN :
           Step(r, Reveal(h[r], firstRowVisible, tabVisible, ok))

DoRows(r) ==
    /\ At(r, "rows")
    /\ \E answer \in {a \in Answers(ListingsIn(scope)) : a.kind # "status"} :
           Step(r, Rows(h[r], answer))

DoRrqNew(r) == At(r, "rrq_new") /\ \E ok \in BOOLEAN : Step(r, RrqNew(h[r], ok))

DoRrqDispose(r) ==
    At(r, "rrq_dispose") /\ \E ok \in ReleaseOutcomes(scope) : Step(r, RrqDispose(h[r], ok))

DoClosePage(r) ==
    At(r, "close_page") /\ \E ok \in ReleaseOutcomes(scope) : Step(r, ClosePage(h[r], ok))

DoCloseCtx(r) ==
    At(r, "close_ctx") /\ \E ok \in ReleaseOutcomes(scope) : Step(r, CloseCtx(h[r], ok))

DoCloseBrowser(r) ==
    At(r, "close_browser") /\ \E ok \in ReleaseOutcomes(scope) : Step(r, CloseBrowser(h[r], ok))

DoDisposeRq(r) ==
    At(r, "dispose_rq") /\ \E ok \in ReleaseOutcomes(scope) : Step(r, DisposeRq(h[r], ok))

Next ==
    \E r \in Requests :
        \/ DoStart(r)
        \/ DoRqNew(r)
        \/ DoSearch(r)
        \/ DoDocs(r)
        \/ DoPdfViaRq(r)
        \/ DoPdfViaFetch(r)
        \/ DoLaunch(r)
        \/ DoNewContext(r)
        \/ DoNewPage(r)
        \/ DoGotoSearch(r)
        \/ DoClick(r)
        \/ DoGotoDocs(r)
        \/ DoReveal(r)
        \/ DoRows(r)
        \/ DoRrqNew(r)
        \/ DoRrqDispose(r)
        \/ DoClosePage(r)
        \/ DoCloseCtx(r)
        \/ DoCloseBrowser(r)
        \/ DoDisposeRq(r)

Spec == Init /\ [][Next]_vars

SpecData == InitData /\ [][Next]_vars

SpecParse == InitParse /\ [][Next]_vars

SpecCleanup == InitCleanup /\ [][Next]_vars

SpecPair == InitPair /\ [][Next]_vars

(***************************************************************************)
(* The browser-first handler of POST /fetchAcncFinancials (server.js:       *)
(* 393-722).  The browser is launched before the try block; when the        *)
(* navigation to the search page fails the whole retrieval is done over     *)
(* HTTP (scrapeViaHttpOnly), otherwise the rendered pages are read.  Every   *)
(* listing row is taken to have two cells or more.  The locals are kept in  *)
(* the same record: frTextPreview in extracted, page.url() / detailUrl in u. *)
(***************************************************************************)

\* if (out.length > 20000) break;  (server.js:427)
BF_PDF_BREAK_CHARS == 20000

\* frTextPreview = (text || "").slice(0,800);  (server.js:543 and 688)
BF_PREVIEW_CHARS == 800

\* pdfTextFromBuffer of this handler (server.js:419-430): the length of out
RECURSIVE BfPageLoop(_, _, _)
BfPageLoop(pages, i, acc) ==
    IF i >= Len(pages) THEN acc
    ELSE LET out == acc + pages[i + 1]
         IN  IF out > BF_PDF_BREAK_CHARS THEN out ELSE BfPageLoop(pages, i + 1, out)

\* server.js:458-466: the href patterns are matched on the whole search page
findCharityLink(rows) == rawLink([links |-> AllLinks(rows)])

\* catch (e) of the handler (server.js:711-713), then the finally block
BfFail(s, msg) ==
    [Send(s, 500, [error |-> msg, step |-> "fetchAcncFinancials", abn |-> s.abn])
        EXCEPT !.pc = "bf_close_ctx"]

\* res.json({...}) (server.js:697-708), then the finally block
BfRespond(s) ==
    LET preview == IF Truthy(s.extracted)
                   THEN [preview |-> [financial_report_text_preview |-> s.extracted[1]]]
                   ELSE <<>>
        body == [abn |-> s.abn,
                 acnc_detail_url |-> toProfile(s.u[1]),
                 latest |-> [financial_report |-> LatestRef(s.latestFr),
                             ais |-> LatestRef(s.latestAis)],
                 all_documents |-> s.docs,
                 notes |-> <<>>] @@ preview
    IN  [Send(s, 200, body) EXCEPT !.pc = "bf_close_ctx"]

\* if (latestFr && PREVIEW): the preview is fetched before the response
BfAfterLatest(s, PREVIEW) ==
    IF s.latestFr # None /\ PREVIEW THEN [s EXCEPT !.pc = "bf_preview"] ELSE BfRespond(s)

\* server.js:562-568
BfStart(s, rawAbn) ==
    LET abn == StripNonDigits(rawAbn)
        t == [s EXCEPT !.abn = abn]
    IN  IF ~IsValidAbn(abn)
        THEN [Send(t, 400, [error |-> "ABN must be 11 digits"]) EXCEPT !.pc = "done"]
        ELSE [t EXCEPT !.pc = "bf_launch"]

\* server.js:570-584: const browser, ctx, page are acquired before the try
\* block: a rejection leaves the handler with no response and no release
BfLaunch(s, ok) ==
    LET t == Op(s, "chromium.launch")
    IN  IF ok THEN [t EXCEPT !.browser = "open", !.strategy = "browser", !.pc = "bf_new_context"]
        ELSE [t EXCEPT !.thrown = Some("browserType.launch: failed"), !.pc = "done"]

BfNewContext(s, ok) ==
    LET t == Op(s, "browser.newContext")
    IN  IF ok THEN [t EXCEPT !.ctx = "open", !.pc = "bf_new_page"]
        ELSE [t EXCEPT !.thrown = Some("browser.newContext: failed"), !.pc = "done"]

BfNewPage(s, ok) ==
    LET t == Op(s, "ctx.newPage")
    IN  IF ok THEN [t EXCEPT !.page = "open", !.pc = "bf_goto_search"]
        ELSE [t EXCEPT !.thrown = Some("context.newPage: failed"), !.pc = "done"]

\* server.js:596-603: a failed navigation sets usedHttpFallback
BfGotoSearch(s, ok) ==
    LET t == Op(s, "page.goto search")
    IN  IF ok THEN [t EXCEPT !.pc = "bf_click"]
        ELSE [t EXCEPT !.strategy = "http-only", !.pc = "bf_http_search"]

\* scrapeViaHttpOnly, server.js:487-493
BfHttpSearch(s, answer) ==
    LET t == Op(s, "fetch search")
        link == findCharityLink(answer.rows)
    IN  IF answer.kind # "ok" THEN BfFail(t, "Fetch failed")
        ELSE IF link = None THEN BfFail(t, "No charity link found in search HTML")
        ELSE [t EXCEPT !.u = Some(toDocuments(link[1])), !.pc = "bf_http_docs"]

\* scrapeViaHttpOnly, server.js:498-530: both comparators are b.year-a.year
BfHttpDocs(s, answer, PREVIEW) ==
    LET t == Op(s, "fetch docs")
        docs == parseDocsFromHtml(answer.rows)
    IN  IF answer.kind # "ok" THEN BfFail(t, "Fetch failed")
        ELSE BfAfterLatest([t EXCEPT !.docs = docs,
                                     !.latestAis = Latest(docs, TypeAis),
                                     !.latestFr = Latest(docs, TypeFr)], PREVIEW)

\* server.js:613-626
BfClick(s, rows, hitVisible, ok) ==
    LET link == browserFindLink(rows, s.abn, hitVisible)
        t == Op(s, "link.click")
    IN  IF link = None THEN BfFail(s, "locator.waitFor: Timeout 20000ms exceeded")
        ELSE IF ~ok THEN BfFail(t, "locator.click: failed")
        ELSE [t EXCEPT !.u = link, !.pc = "bf_goto_docs"]

\* server.js:628-631: .catch(()=>{})
BfGotoDocs(s, ok) ==
    LET t == Op(s, "page.goto docs")
    IN  IF ok THEN [t EXCEPT !.u = Some(toDocuments(s.u[1])), !.pc = "bf_rows"]
        ELSE [Swallow(t, "page.goto docs", FALSE) EXCEPT !.pc = "bf_rows"]

\* server.js:675: docs.filter(AIS with a year).sort((a,b)=>b.year-a-year)[0]
\* || null.  No variable year is in scope there, so the first call of the
\* comparator throws ReferenceError; sort calls it as soon as the array has
\* two elements.  Gives None when the expression throws, else Some(latestAis).
BfLatestAis(docs) ==
    LET cand == SelectSeq(docs, LAMBDA d : d.type = TypeAis /\ d.year # None)
    IN  IF Len(cand) >= 2 THEN None
        ELSE IF cand = <<>> THEN Some(None)
        ELSE Some(Some(Head(cand)))

\* server.js:633-676: the tab is clicked when no row is visible and the tab
\* is; then the rows are counted and read and the latest are selected
BfRows(s, firstRowVisible, tabVisible, tabOk, answer, PREVIEW) ==
    LET clicks == ~firstRowVisible /\ tabVisible
        t0 == IF clicks THEN Op(s, "tab.click") ELSE s
        t == Op(t0, "rows.count")
        docs == readRows(answer.rows)
        ais == BfLatestAis(docs)
        w == [t EXCEPT !.docs = docs]
    IN  IF clicks /\ ~tabOk THEN BfFail(t0, "locator.click: failed")
        ELSE IF answer.kind = "throw" THEN BfFail(t, "locator.count: failed")
        ELSE IF Len(answer.rows) = 0
             THEN BfFail(t, "No annual reporting rows found on ACNC documents tab.")
        ELSE IF ais = None THEN BfFail(w, "year is not defined")
        ELSE BfAfterLatest([w EXCEPT !.latestAis = ais[1],
                                     !.latestFr = Latest(docs, TypeFr)], PREVIEW)

\* server.js:536-548 and 679-692: try { fetch ... } finally { clearTimeout }
\* has no catch, so a rejected fetch reaches the handler's catch (e)
BfPreview(s, body) ==
    LET t == Op(s, "fetch pdf")
    IN  IF body.kind = "throw" THEN BfFail(t, "fetch failed")
        ELSE IF body.kind = "pdf"
             THEN BfRespond([t EXCEPT !.extracted =
                                 Some(Min(BfPageLoop(body.pages, 0, 0), BF_PREVIEW_CHARS))])
        ELSE IF body.kind = "corrupt" THEN BfRespond([t EXCEPT !.extracted = Some(0)])
        ELSE BfRespond(t)

\* server.js:714-716: await ctx.close().catch(()=>{})
BfCloseCtx(s, ok) ==
    [Swallow(Op(s, "ctx.close"), "ctx.close", ok) EXCEPT !.ctx = "closed", !.pc = "bf_close_browser"]

\* await browser.close().catch(()=>{})
BfCloseBrowser(s, ok) ==
    [Swallow(Op(s, "browser.close"), "browser.close", ok)
        EXCEPT !.browser = "closed", !.pc = "done"]

\* the browser-first handler serves one request
InitBf ==
    /\ h = [r \in Requests |-> [InitLocal EXCEPT !.pc = "bf_idle"]]
    /\ active = {1}
    /\ PREVIEW_DEFAULT \in BOOLEAN
    /\ scope = "parse"

DoBfStart(r) ==
    At(r, "bf_idle") /\ \E rawAbn \in RawAbnsIn(scope) : Step(r, BfStart(h[r], rawAbn))

DoBfLaunch(r) == At(r, "bf_launch") /\ \E ok \in BOOLEAN : Step(r, BfLaunch(h[r], ok))

DoBfNewContext(r) ==
    At(r, "bf_new_context") /\ \E ok \in BOOLEAN : Step(r, BfNewContext(h[r], ok))

DoBfNewPage(r) == At(r, "bf_new_page") /\ \E ok \in BOOLEAN : Step(r, BfNewPage(h[r], ok))

DoBfGotoSearch(r) ==
    At(r, "bf_goto_search") /\ \E ok \in BOOLEAN : Step(r, BfGotoSearch(h[r], ok))

DoBfHttpSearch(r) ==
    /\ At(r, "bf_http_search")
    /\ \E answer \in Answers(SearchPagesIn(scope)) : Step(r, BfHttpSearch(h[r], answer))

DoBfHttpDocs(r) ==
    /\ At(r, "bf_http_docs")
    /\ \E answer \in Answers(ListingsIn(scope)) :
           Step(r, BfHttpDocs(h[r], answer, PREVIEW_DEFAULT))

DoBfClick(r) ==
    /\ At(r, "bf_click")
    /\ \E rows \in SearchPagesIn(scope), hitVisible \in BOOLEAN, ok \in BOOLEAN :
           Step(r, BfClick(h[r], rows, hitVisible, ok))

DoBfGotoDocs(r) == At(r, "bf_goto_docs") /\ \E ok \in BOOLEAN : Step(r, BfGotoDocs(h[r], ok))

DoBfRows(r) ==
    /\ At(r, "bf_rows")
    /\ \E firstRowVisible \in BOOLEAN, tabVisible \in BOOLEAN, tabOk \in BOOLEAN,
          answer \in {a \in Answers(ListingsIn(scope)) : a.kind # "status"} :
           Step(r, BfRows(h[r], firstRowVisible, tabVisible, tabOk, answer, PREVIEW_DEFAULT))

DoBfPreview(r) ==
    At(r, "bf_preview") /\ \E body \in PdfBodiesIn(scope) : Step(r, BfPreview(h[r], body))

DoBfCloseCtx(r) ==
    At(r, "bf_close_ctx") /\ \E ok \in ReleaseOutcomes(scope) : Step(r, BfCloseCtx(h[r], ok))

DoBfCloseBrowser(r) ==
    /\ At(r, "bf_close_browser")
    /\ \E ok \in ReleaseOutcomes(scope) : Step(r, BfCloseBrowser(h[r], ok))

NextBf ==
    \E r \in Requests :
        \/ DoBfStart(r)
        \/ DoBfLaunch(r)
        \/ DoBfNewContext(r)
        \/ DoBfNewPage(r)
        \/ DoBfGotoSearch(r)
        \/ DoBfHttpSearch(r)
        \/ DoBfHttpDocs(r)
        \/ DoBfClick(r)
        \/ DoBfGotoDocs(r)
        \/ DoBfRows(r)
        \/ DoBfPreview(r)
        \/ DoBfCloseCtx(r)
        \/ DoBfCloseBrowser(r)

SpecBf == InitBf /\ [][NextBf]_vars

(***************************************************************************)
(* Vocabulary of the properties.                                           *)
(***************************************************************************)
Count(ops, name) == Cardinality({i \in 1..Len(ops) : ops[i] = name})

Did(s, name) == Count(s.ops, name) > 0

\* the responses of a given status that the handler run has sent
Responses(s, status) == {i \in 1..Len(s.sent) : s.sent[i].status = status}

Succeeded(s) == Responses(s, 200) # {}

HttpOps == {"rq.new", "rq.get search", "rq.get docs"}

NetworkOps ==
    HttpOps \cup {"rq.get pdf", "fetch pdf", "chromium.launch", "browser.newContext",
                  "ctx.newPage", "page.goto search", "link.click", "page.goto docs",
                  "tab.click", "rows.count", "rrq.new"}

Clients == {"rq", "browser", "ctx", "page", "rrq"}

\* the HTTP strategy has thrown: the handler is in, or has left, the fallback
HttpFailed(s) == s.strategy = "browser"

(***************************************************************************)
(* C1.  A request whose identifier has other than 11 digits after the      *)
(* non-digits are stripped is answered with the client error (status 400)  *)
(* and nothing else: no operation on the network or on the browser is ever *)
(* invoked for it and it enters neither strategy.                          *)
(***************************************************************************)
C1_InvalidInputNoNetwork ==
    \A r \in active :
        (h[r].pc # "idle" /\ Len(h[r].abn) # 11) =>
            /\ h[r].pc = "done"
            /\ h[r].sent = <<[status |-> 400, body |-> [error |-> "ABN must be 11 digits"]]>>
            /\ h[r].ops = <<>>
            /\ h[r].strategy = "none"
            /\ \A c \in Clients : h[r][c] = "unset"

C1_Witness ==
    \E r \in active :
        h[r].pc = "done" /\ Len(h[r].abn) = 12 /\ Responses(h[r], 400) # {}

(***************************************************************************)
(* C2.  Once the HTTP strategy has failed, whatever the stage, the browser *)
(* is launched exactly once, and before any error response is sent; the    *)
(* request context, the search fetch and the documents fetch of the HTTP   *)
(* strategy are each invoked at most once per request.                     *)
(***************************************************************************)
C2_FallbackExactlyOnce ==
    \A r \in active :
        /\ \A op \in HttpOps : Count(h[r].ops, op) <= 1
        /\ Count(h[r].ops, "chromium.launch") <= 1
        /\ (HttpFailed(h[r]) /\ h[r].pc # "launch") => Did(h[r], "chromium.launch")
        /\ Responses(h[r], 500) # {} => Count(h[r].ops, "chromium.launch") = 1
        /\ Did(h[r], "chromium.launch") => HttpFailed(h[r])

C2_Witness ==
    \E r \in active :
        /\ h[r].pc = "done"
        /\ Did(h[r], "rq.get docs")
        /\ HttpFailed(h[r])
        /\ Responses(h[r], 500) # {}

(***************************************************************************)
(* C3.  Whenever the browser strategy fails, at whatever stage (launching  *)
(* the browser, creating the context, opening the page, navigating,        *)
(* locating or reading rows), the request ends with an error response that *)
(* carries an error message, step "browser-fallback" and the identifier.   *)
(***************************************************************************)
C3_BrowserFailureAnswered ==
    \A r \in active :
        (h[r].pc = "done" /\ HttpFailed(h[r]) /\ ~Succeeded(h[r])) =>
            \E i \in Responses(h[r], 500) :
                /\ h[r].sent[i].body.step = "browser-fallback"
                /\ h[r].sent[i].body.abn = h[r].abn

(***************************************************************************)
(* C4.  Every failure response carries a message, a step indicator and the *)
(* identifier.                                                             *)
(***************************************************************************)
C4_FailureResponseShape ==
    \A r \in active :
        \A i \in 1..Len(h[r].sent) :
            h[r].sent[i].status # 200 =>
                {"error", "step", "abn"} \subseteq DOMAIN h[r].sent[i].body

(***************************************************************************)
(* C5.  No success response has an empty all_documents.                    *)
(***************************************************************************)
C5_NoEmptySuccess ==
    \A r \in active :
        \A i \in Responses(h[r], 200) : h[r].sent[i].body.all_documents # <<>>

(***************************************************************************)
(* C6.  A server-error (500) response is sent only after the HTTP strategy *)
(* has been run and has failed and the browser strategy has then been run  *)
(* and has failed: the operations of the HTTP strategy come first and the  *)
(* launch of the browser after all of them, the browser strategy has got   *)
(* as far as navigating, and no success response was sent.                 *)
(***************************************************************************)
C6_ServerErrorOnlyAfterBoth ==
    \A r \in active :
        Responses(h[r], 500) # {} =>
            /\ HttpFailed(h[r])
            /\ ~Succeeded(h[r])
            /\ h[r].ops # <<>> /\ h[r].ops[1] = "rq.new"
            /\ \E i \in 1..Len(h[r].ops) :
                   /\ h[r].ops[i] = "chromium.launch"
                   /\ \A j \in 1..(i - 1) : h[r].ops[j] \in HttpOps
                   /\ \A j \in (i + 1)..Len(h[r].ops) : h[r].ops[j] \notin HttpOps
            /\ Did(h[r], "page.goto search")

C6_Witness ==
    \E r \in active :
        /\ h[r].pc = "done"
        /\ Responses(h[r], 500) # {}
        /\ Did(h[r], "rq.get search")
        /\ Did(h[r], "rows.count")

(***************************************************************************)
(* C7.  Once the document listing has been parsed and text extraction has  *)
(* begun (the request context for the PDF is being created or the PDF is   *)
(* being fetched), the request never gets an error response and ends with  *)
(* the success response.                                                   *)
(***************************************************************************)
C7_ExtractionNeverFails ==
    \A r \in active :
        (Did(h[r], "rrq.new") \/ Did(h[r], "rq.get pdf")) =>
            /\ \A i \in 1..Len(h[r].sent) : h[r].sent[i].status = 200
            /\ h[r].pc = "done" => Succeeded(h[r])

(***************************************************************************)
(* C8.  In every success response pdf_text is present only if the mode is  *)
(* "full" and extraction returned a non-empty text, preview only if the    *)
(* mode is "preview" and extraction returned a non-empty text, never both, *)
(* and neither when the mode is "none", when there is no latest Financial  *)
(* Report or when extraction gave no text.                                 *)
(***************************************************************************)
C8_TextFieldsMatchMode ==
    \A r \in active :
        \A i \in Responses(h[r], 200) :
            LET body == h[r].sent[i].body
                hasFull == "pdf_text" \in DOMAIN body
                hasPreview == "preview" \in DOMAIN body
            IN  /\ hasFull =>
                    /\ h[r].pdfTextMode = ModeFull
                    /\ h[r].extracted # None
                    /\ body.pdf_text = h[r].extracted[1]
                    /\ body.pdf_text > 0
                /\ hasPreview =>
                    /\ h[r].pdfTextMode = ModePreview
                    /\ h[r].extracted # None
                    /\ body.preview.financial_report_text_preview = h[r].extracted[1]
                    /\ body.preview.financial_report_text_preview > 0
                /\ ~(hasFull /\ hasPreview)
                /\ ( \/ h[r].pdfTextMode = ModeNone
                     \/ body.latest.financial_report = None
                     \/ h[r].extracted = None
                     \/ h[r].extracted = Some(0) ) => (~hasFull /\ ~hasPreview)

C8_Witness ==
    \E r \in active :
        \E i \in Responses(h[r], 200) :
            /\ "pdf_text" \in DOMAIN h[r].sent[i].body
            /\ h[r].sent[i].body.pdf_text = MAX_FULL_PDF_CHARS
            /\ HttpFailed(h[r])

(***************************************************************************)
(* C9.  When text extraction was requested, a latest Financial Report      *)
(* exists and extraction fails or gives no text, the success response has  *)
(* a non-empty notes array.                                                *)
(***************************************************************************)
C9_NotesOnDegradedExtraction ==
    \A r \in active :
        \A i \in Responses(h[r], 200) :
            ( /\ h[r].pdfTextMode \in {ModePreview, ModeFull}
              /\ h[r].latestFr # None
              /\ ~Truthy(h[r].extracted) ) => h[r].sent[i].body.notes # <<>>

(***************************************************************************)
(* C10.  When the handler has finished, on whatever exit path, every       *)
(* client it acquired (request context, browser, browser context, page,    *)
(* request context of the PDF extraction) has had its release invoked.     *)
(***************************************************************************)
C10_AllReleased ==
    \A r \in active :
        /\ h[r].pc = "done" => \A c \in Clients : h[r][c] # "open"
        /\ h[r].pc \in {"close_page", "close_ctx", "close_browser", "dispose_rq"} =>
               h[r].rrq # "open"

C10_Witness ==
    \E r \in active :
        /\ h[r].pc = "done"
        /\ h[r].thrown # None
        /\ h[r].rq = "released"
        /\ h[r].browser = "released"
        /\ h[r].ctx = "unset"

(***************************************************************************)
(* C11.  When the HTTP strategy fails, its request context is released     *)
(* before the browser is launched: the request context of the HTTP         *)
(* strategy is never still held while the browser strategy runs.           *)
(***************************************************************************)
C11_RqReleasedBeforeBrowser ==
    \A r \in active : Did(h[r], "chromium.launch") => h[r].rq # "open"

(***************************************************************************)
(* C12.  The rejection of any single release (page close, context close,   *)
(* browser close, request-context dispose) is discarded: the handler goes  *)
(* on exactly as when the release resolves, so the response already sent   *)
(* is neither changed nor replaced, nothing is thrown, and the remaining   *)
(* releases are still invoked.  Checked in scope "cleanup", where a        *)
(* release may reject.                                                     *)
(***************************************************************************)
ReleaseOps == {"page.close", "ctx.close", "browser.close", "rq.dispose", "rrq.dispose"}

\* two handler states that differ at most in the record of discarded rejections
SameButSwallowed(a, b) == [a EXCEPT !.swallowed = {}] = [b EXCEPT !.swallowed = {}]

C12_ReleaseFailureDiscarded ==
    \A r \in active :
        LET s == h[r]
        IN  /\ s.pc = "rrq_dispose" =>
                SameButSwallowed(RrqDispose(s, FALSE), RrqDispose(s, TRUE))
            /\ s.pc = "close_page" =>
                /\ SameButSwallowed(ClosePage(s, FALSE), ClosePage(s, TRUE))
                /\ ClosePage(s, FALSE).sent = s.sent
            /\ s.pc = "close_ctx" =>
                /\ SameButSwallowed(CloseCtx(s, FALSE), CloseCtx(s, TRUE))
                /\ CloseCtx(s, FALSE).sent = s.sent
            /\ s.pc = "close_browser" =>
                /\ SameButSwallowed(CloseBrowser(s, FALSE), CloseBrowser(s, TRUE))
                /\ CloseBrowser(s, FALSE).sent = s.sent
            /\ s.pc = "dispose_rq" =>
                /\ SameButSwallowed(DisposeRq(s, FALSE), DisposeRq(s, TRUE))
                /\ DisposeRq(s, FALSE).sent = s.sent
            /\ (s.pc = "done" /\ s.swallowed \cap ReleaseOps # {}) =>
                /\ \A c \in Clients : s[c] # "open"
                /\ Len(s.sent) <= 1

C12_Witness ==
    \E r \in active :
        /\ h[r].pc = "done"
        /\ "page.close" \in h[r].swallowed
        /\ h[r].ctx = "released"
        /\ h[r].browser = "released"
        /\ h[r].rq = "released"
        /\ Succeeded(h[r])

(***************************************************************************)
(* Outcomes of a failed listing-stage operation.                           *)
(***************************************************************************)
\* t enters the browser fallback from s without answering
EntersFallback(s, t) ==
    t.pc = "launch" /\ t.strategy = "browser" /\ t.sent = s.sent /\ t.thrown = None

\* t ends the try block of s with the final failure of the browser fallback
EndsWithBrowserFailure(s, t) ==
    /\ t.pc = "close_page"
    /\ Len(t.sent) = Len(s.sent) + 1
    /\ t.sent[Len(t.sent)].status = 500
    /\ t.sent[Len(t.sent)].body.step = "browser-fallback"
    /\ t.docs = s.docs

FailedAnswers == {[kind |-> k, rows |-> <<>>] : k \in {"throw", "status"}}

\* every listing-stage operation but the navigation to the documents view
FailurePropagates(s) ==
    /\ s.pc = "search" => \A a \in FailedAnswers : EntersFallback(s, Search(s, a))
    /\ s.pc = "docs" => \A a \in FailedAnswers : EntersFallback(s, Docs(s, a))
    /\ s.pc = "goto_search" => EndsWithBrowserFailure(s, GotoSearch(s, FALSE))
    /\ s.pc = "click" =>
           \A rows \in SearchPagesIn(scope), hitVisible \in BOOLEAN :
               EndsWithBrowserFailure(s, Click(s, rows, hitVisible, FALSE))
    /\ s.pc = "reveal" => EndsWithBrowserFailure(s, Reveal(s, FALSE, TRUE, FALSE))
    /\ s.pc = "rows" =>
           EndsWithBrowserFailure(s, Rows(s, [kind |-> "throw", rows |-> <<>>]))

PdfFetches(s) == Count(s.ops, "rq.get pdf") + Count(s.ops, "fetch pdf")

\* no operation occurs twice in the log
NoRepeat(ops) == Cardinality({ops[i] : i \in 1..Len(ops)}) = Len(ops)

C14_PdfFetchedAtMostOnce ==
    \A r \in active :
        /\ NoRepeat(h[r].ops)
        /\ PdfFetches(h[r]) <= 1

(***************************************************************************)
(* C14 amended.  Every operation is invoked at most once in a retrieval,   *)
(* so the PDF URL is fetched at most twice: once through the               *)
(* request context and, exactly when that attempt gave no %PDF body        *)
(* (error, non-success status, non-PDF body), once more by a direct fetch  *)
(* of the same URL.  The second attempt is never repeated.                 *)
(***************************************************************************)
C14_PdfFetchedAtMostTwice ==
    \A r \in active :
        /\ NoRepeat(h[r].ops)
        /\ Did(h[r], "fetch pdf") => Did(h[r], "rq.get pdf")
        /\ h[r].pc = "pdf_rq" =>
               \A body \in PdfBodiesIn(scope) :
                   (PdfViaRq(h[r], body).pc = "pdf_fetch")
                       <=> body.kind \in {"throw", "status", "notpdf"}
        /\ h[r].pc = "pdf_fetch" =>
               \A body \in PdfBodiesIn(scope) : PdfViaFetch(h[r], body).pc # "pdf_fetch"

C14_Witness ==
    \E r \in active :
        /\ PdfFetches(h[r]) = 2
        /\ h[r].pc = "done"
        /\ h[r].extracted = None
        /\ Succeeded(h[r])

(***************************************************************************)
(* C15.  For every PDF body and every cap, the text that extractPdfTextVia *)
(* returns is at most the requested cap long, so pdf_text in a response is *)
(* at most MAX_FULL_PDF_CHARS long and the preview at most                 *)
(* DEFAULT_PREVIEW_CHARS; a body that is not a PDF and a PDF that fails to *)
(* decode give no text and no error.                                       *)
(***************************************************************************)
Caps == {DEFAULT_PREVIEW_CHARS, MAX_FULL_PDF_CHARS}

C15_ExtractedTextWithinCap ==
    \A r \in active :
        LET s == h[r]
        IN  /\ s.extracted # None => s.extracted[1] <= CapFor(s.pdfTextMode)
            /\ \A i \in Responses(s, 200) :
                   LET b == s.sent[i].body
                   IN  /\ "pdf_text" \in DOMAIN b => b.pdf_text <= MAX_FULL_PDF_CHARS
                       /\ "preview" \in DOMAIN b =>
                              b.preview.financial_report_text_preview
                                  <= DEFAULT_PREVIEW_CHARS
            /\ s.pc \in {"pdf_rq", "pdf_fetch"} =>
                   \A body \in PdfBodiesIn(scope), cap \in Caps :
                       LET got == PdfAttempt(body, cap)
                           t == IF s.pc = "pdf_rq" THEN PdfViaRq(s, body)
                                ELSE PdfViaFetch(s, body)
                       IN  /\ got # None => got[1] <= cap
                           /\ body.kind \in {"notpdf", "corrupt"} =>
                                  /\ ~Truthy(got)
                                  /\ t.thrown = None
                                  /\ Responses(t, 500) = {}

C15_Witness ==
    \E r \in active :
        \E i \in Responses(h[r], 200) :
            /\ "preview" \in DOMAIN h[r].sent[i].body
            /\ h[r].sent[i].body.preview.financial_report_text_preview
                   = DEFAULT_PREVIEW_CHARS
            /\ h[r].pdfTextMode = ModePreview

(***************************************************************************)
(* C16.  The latest AIS and the latest Financial Report are each the first *)
(* document in listing order, among the documents of that type whose year  *)
(* is not null, that has the greatest year; each is null exactly when no   *)
(* document of that type has a year.  Documents without a year are never   *)
(* selected and stay in all_documents at their place in listing order.     *)
(***************************************************************************)
\* the indexes of the documents of a type that have a year
Dated(docs, type) == {i \in 1..Len(docs) : docs[i].type = type /\ docs[i].year # None}

\* i is the first index of the greatest year among the dated documents of the type
FirstOfGreatestYear(docs, type, i) ==
    /\ i \in Dated(docs, type)
    /\ \A j \in Dated(docs, type) :
           /\ docs[j].year[1] <= docs[i].year[1]
           /\ j < i => docs[j].year[1] < docs[i].year[1]

IsLatest(docs, type, sel) ==
    IF Dated(docs, type) = {} THEN sel = None
    ELSE \E i \in Dated(docs, type) :
             FirstOfGreatestYear(docs, type, i) /\ sel = Some(docs[i])

IsLatestRef(docs, type, ref) ==
    IF Dated(docs, type) = {} THEN ref = None
    ELSE \E i \in Dated(docs, type) :
             /\ FirstOfGreatestYear(docs, type, i)
             /\ ref = Some([year |-> docs[i].year[1], source_url |-> docs[i].source_url])

RECURSIVE Concat(_)
Concat(seqs) == IF seqs = <<>> THEN <<>> ELSE Head(seqs) \o Concat(Tail(seqs))

C16_LatestIsFirstOfGreatestYear ==
    \A r \in active :
        LET s == h[r]
        IN  /\ s.pc \in {"pdf_rq", "rrq_new"} =>
                   /\ IsLatest(s.docs, TypeFr, s.latestFr)
                   /\ IsLatest(s.docs, TypeAis, s.latestAis)
            /\ s.pc = "close_page" =>
                   \A i \in Responses(s, 200) :
                       LET b == s.sent[i].body
                       IN  /\ b.all_documents = s.docs
                           /\ IsLatestRef(b.all_documents, TypeFr, b.latest.financial_report)
                           /\ IsLatestRef(b.all_documents, TypeAis, b.latest.ais)
            /\ s.pc \in {"close_ctx", "close_browser", "dispose_rq", "done"} =>
                   \A i \in Responses(s, 200) :
                       /\ s.sent[i].body.all_documents = s.docs
                       /\ s.sent[i].body.latest.financial_report = LatestRef(s.latestFr)
                       /\ s.sent[i].body.latest.ais = LatestRef(s.latestAis)
            /\ s.pc = "docs" =>
                   \A rows \in ListingsIn(scope) :
                       Docs(s, [kind |-> "ok", rows |-> rows]).docs
                           = Concat([k \in 1..Len(rows) |-> parseDocsFromHtml(<<rows[k]>>)])
            /\ s.pc = "rows" =>
                   \A rows \in ListingsIn(scope) :
                       rows # <<>> =>
                           Rows(s, [kind |-> "ok", rows |-> rows]).docs
                               = Concat([k \in 1..Len(rows) |-> readRows(<<rows[k]>>)])

C16_Witness ==
    \E r \in active :
        \E i \in Responses(h[r], 200) :
            LET b == h[r].sent[i].body
            IN  /\ Len(b.all_documents) = 2
                /\ Dated(b.all_documents, TypeFr) = {1, 2}
                /\ b.all_documents[1].year = b.all_documents[2].year
                /\ b.all_documents[1].source_url # b.all_documents[2].source_url
                /\ b.latest.financial_report # None
                /\ b.latest.financial_report[1].source_url = b.all_documents[1].source_url

(***************************************************************************)
(* C17.  A request value of pdfText that is, without regard to case, one   *)
(* of "none", "preview", "full" is the mode of the request; every other    *)
(* value, a missing one included, gives the configured default ("preview"  *)
(* unless previews are disabled, then "none") and never an error response. *)
(***************************************************************************)
Modes == {ModeNone, ModePreview, ModeFull}

EqualsIgnoringCase(raw, mode) ==
    Len(raw) = Len(mode) /\ \A i \in 1..Len(raw) : LowerChar(raw[i]) = mode[i]

ModeAsked(raw, previewDefault) ==
    IF \E m \in Modes : EqualsIgnoringCase(raw, m)
    THEN CHOOSE m \in Modes : EqualsIgnoringCase(raw, m)
    ELSE IF previewDefault THEN ModePreview ELSE ModeNone

C17_ModeResolution ==
    \A r \in active :
        LET s == h[r]
        IN  /\ s.pc = "idle" =>
                   \A rawAbn \in RawAbnsIn(scope), rawMode \in RawModesIn(scope) :
                       LET t == Start(s, rawAbn, rawMode, PREVIEW_DEFAULT)
                       IN  IsValidAbn(StripNonDigits(rawAbn)) =>
                               /\ t.pdfTextMode = ModeAsked(rawMode, PREVIEW_DEFAULT)
                               /\ t.sent = <<>>
                               /\ t.pc = "rq_new"
            /\ s.strategy # "none" =>
                   /\ s.pdfTextMode \in Modes
                   /\ s.bodyMode \in Modes => s.pdfTextMode = s.bodyMode
                   /\ s.bodyMode \notin Modes =>
                          s.pdfTextMode = IF PREVIEW_DEFAULT THEN ModePreview ELSE ModeNone
                   /\ \A i \in 1..Len(s.sent) : s.sent[i].status # 400

C17_Witness ==
    \E r \in active :
        /\ h[r].pc = "done"
        /\ h[r].bodyMode = <<"a", "l", "l">>
        /\ ~PREVIEW_DEFAULT
        /\ h[r].pdfTextMode = ModeNone
        /\ Succeeded(h[r])

(***************************************************************************)
(* C18.  In both strategies the profile link that is followed comes from a *)
(* search-result row that contains the identifier (plain or grouped); when *)
(* no row contains it the strategy fails and follows no link of any other  *)
(* row.                                                                    *)
(***************************************************************************)
\* t, reached from the search page rows, has followed (pc = next) only a link
\* of a row that contains the identifier
FollowsOnlyMatchingRow(abn, rows, t, next) ==
    t.pc = next =>
        \E k \in 1..Len(rows) :
            /\ RowMatchesAbn(rows[k], abn)
            /\ \E n \in 1..Len(rows[k].links) :
                   toDocuments(rows[k].links[n]) = toDocuments(t.u[1])

C18_LinkFromMatchingRow ==
    \A r \in active :
        LET s == h[r]
        IN  /\ s.pc = "search" =>
                   \A rows \in SearchPagesIn(scope) :
                       FollowsOnlyMatchingRow(
                           s.abn, rows, Search(s, [kind |-> "ok", rows |-> rows]), "docs")
            /\ s.pc = "click" =>
                   \A rows \in SearchPagesIn(scope), hitVisible \in BOOLEAN :
                       FollowsOnlyMatchingRow(
                           s.abn, rows, Click(s, rows, hitVisible, TRUE), "goto_docs")

(***************************************************************************)
(* C19.  Once the HTTP strategy has succeeded (the success response is     *)
(* sent and no browser was launched), the browser is never launched, no    *)
(* browser context or page is created, no operation of the browser         *)
(* strategy is invoked and no further response is sent.                    *)
(***************************************************************************)
BrowserOps ==
    {"chromium.launch", "browser.newContext", "ctx.newPage", "page.goto search",
     "link.click", "page.goto docs", "tab.click", "rows.count", "rrq.new",
     "rrq.dispose", "page.close", "ctx.close", "browser.close"}

NoBrowser(s) ==
    /\ \A c \in {"browser", "ctx", "page", "rrq"} : s[c] = "unset"
    /\ \A name \in BrowserOps : ~Did(s, name)

C19_NoBrowserAfterHttpSuccess ==
    [][\A r \in active :
           (Succeeded(h[r]) /\ NoBrowser(h[r])) =>
               /\ NoBrowser(h'[r])
               /\ h'[r].sent = h[r].sent
               /\ h'[r].strategy = "http"]_vars

C19_Witness ==
    \E r \in active :
        /\ h[r].pc = "done"
        /\ Succeeded(h[r])
        /\ NoBrowser(h[r])
        /\ Did(h[r], "rq.get pdf")
        /\ h[r].rq = "released"

(***************************************************************************)
(* C20.  Requests in flight at once share no mutable state: a step of one  *)
(* request changes the locals and the clients of that request only, and    *)
(* takes them where the same step takes them when the request runs alone;  *)
(* the configuration is never changed.  So no request uses or releases a   *)
(* client another request acquired, and each request's response and        *)
(* released clients are those of its own run.  Checked with two requests   *)
(* interleaved at every suspension point (scope "pair").                   *)
(***************************************************************************)
\* where one step can take the locals s of a request, whatever else runs
AloneSteps(s) ==
    IF s.pc = "idle"
        THEN {Start(s, a, m, PREVIEW_DEFAULT) : a \in RawAbnsIn(scope), m \in RawModesIn(scope)}
    ELSE IF s.pc = "rq_new" THEN {RqNew(s, ok) : ok \in BOOLEAN}
    ELSE IF s.pc = "search" THEN {Search(s, a) : a \in Answers(SearchPagesIn(scope))}
    ELSE IF s.pc = "docs" THEN {Docs(s, a) : a \in Answers(ListingsIn(scope))}
    ELSE IF s.pc = "pdf_rq" THEN {PdfViaRq(s, b) : b \in PdfBodiesIn(scope)}
    ELSE IF s.pc = "pdf_fetch" THEN {PdfViaFetch(s, b) : b \in PdfBodiesIn(scope)}
    ELSE IF s.pc = "launch" THEN {Launch(s, ok) : ok \in BOOLEAN}
    ELSE IF s.pc = "new_context" THEN {NewContext(s, ok) : ok \in BOOLEAN}
    ELSE IF s.pc = "new_page" THEN {NewPage(s, ok) : ok \in BOOLEAN}
    ELSE IF s.pc = "goto_search" THEN {GotoSearch(s, ok) : ok \in BOOLEAN}
    ELSE IF s.pc = "click"
        THEN {Click(s, rows, v, ok) :
                  rows \in SearchPagesIn(scope), v \in BOOLEAN, ok \in BOOLEAN}
    ELSE IF s.pc = "goto_docs" THEN {GotoDocs(s, ok) : ok \in BOOLEAN}
    ELSE IF s.pc = "reveal"
        THEN {Reveal(s, f, v, ok) : f \in BOOLEAN, v \in BOOLEAN, ok \in BOOLEAN}
    ELSE IF s.pc = "rows" THEN {Rows(s, a) : a \in Answers(ListingsIn(scope))}
    ELSE IF s.pc = "rrq_new" THEN {RrqNew(s, ok) : ok \in BOOLEAN}
    ELSE IF s.pc = "rrq_dispose" THEN {RrqDispose(s, ok) : ok \in ReleaseOutcomes(scope)}
    ELSE IF s.pc = "close_page" THEN {ClosePage(s, ok) : ok \in ReleaseOutcomes(scope)}
    ELSE IF s.pc = "close_ctx" THEN {CloseCtx(s, ok) : ok \in ReleaseOutcomes(scope)}
    ELSE IF s.pc = "close_browser" THEN {CloseBrowser(s, ok) : ok \in ReleaseOutcomes(scope)}
    ELSE IF s.pc = "dispose_rq" THEN {DisposeRq(s, ok) : ok \in ReleaseOutcomes(scope)}
    ELSE {}

C20_NoInterference ==
    [][/\ PREVIEW_DEFAULT' = PREVIEW_DEFAULT
       /\ \A r \in active :
              h'[r] # h[r] =>
                  /\ h'[r] \in AloneSteps(h[r])
                  /\ \A q \in active \ {r} : h'[q] = h[q]]_vars

\* both requests have finished, one answered 200 after the fallback and the
\* other 500, each with its own clients released
C20_Witness ==
    /\ active = {1, 2}
    /\ h[1].pc = "done" /\ h[2].pc = "done"
    /\ Succeeded(h[1]) /\ HttpFailed(h[1])
    /\ Responses(h[2], 500) # {}
    /\ \A r \in active : \A c \in {"rq", "browser", "ctx", "page"} : h[r][c] = "released"
    /\ h[1].ops # h[2].ops

(***************************************************************************)
(* C21.  Page decoding stops relative to the cap requested for the call:   *)
(* for the preview cap as for the full cap, once the text accumulated from *)
(* pages 1..k is longer than the requested cap, no page after k is         *)
(* decoded.                                                                *)
(***************************************************************************)
RECURSIVE LengthOfPages(_, _)
\* the length of the text accumulated from pages 1..k
LengthOfPages(pages, k) == IF k = 0 THEN 0 ELSE LengthOfPages(pages, k - 1) + pages[k]

StopsAtCap(pages, cap) ==
    \A k \in 1..Len(pages) :
        LengthOfPages(pages, k) > cap => pdfTextFromBuffer(pages).decoded <= k

C21_DecodingStopsAtRequestedCap ==
    \A r \in active :
        h[r].pc \in {"pdf_rq", "pdf_fetch"} =>
            \A body \in PdfBodiesIn(scope) :
                body.kind = "pdf" => StopsAtCap(body.pages, CapFor(h[r].pdfTextMode))

(***************************************************************************)
(* C22.  The listing parser of the HTTP strategy and the row reader of the *)
(* browser strategy are equivalent on the same listing: for every row,     *)
(* either both emit a document with the same type, year and title, or both *)
(* skip the row.                                                           *)
(***************************************************************************)
SameRowOutcome(row) ==
    LET viaHttp == parseDocsFromHtml(<<row>>)
        viaBrowser == readRows(<<row>>)
    IN  \/ viaHttp = <<>> /\ viaBrowser = <<>>
        \/ /\ Len(viaHttp) = 1
           /\ Len(viaBrowser) = 1
           /\ viaHttp[1].type = viaBrowser[1].type
           /\ viaHttp[1].year = viaBrowser[1].year
           /\ viaHttp[1].title = viaBrowser[1].title

C22_ParsersEquivalent ==
    \A r \in active :
        h[r].pc \in {"docs", "rows"} =>
            \A rows \in ListingsIn(scope) :
                \A k \in 1..Len(rows) : SameRowOutcome(rows[k])

(***************************************************************************)
(* C23.  parseDocsFromHtml emits exactly one document, in listing order,   *)
(* for each row whose first cell has a non-empty title after tag stripping *)
(* and which holds at least one anchor, and nothing for a row with an      *)
(* empty title or without an anchor; the link of the document is the first *)
(* .pdf anchor of the row if it has one, otherwise the first anchor whose  *)
(* text starts with download / view / ais, otherwise the first anchor.     *)
(***************************************************************************)
\* the index of the first anchor that satisfies P; 0 when none does
FirstAnchor(anchors, P(_)) ==
    IF \E i \in 1..Len(anchors) : P(anchors[i])
    THEN CHOOSE i \in 1..Len(anchors) :
             P(anchors[i]) /\ \A j \in 1..(i - 1) : ~P(anchors[j])
    ELSE 0

HasHref(a) == a.href # <<>>

PreferredAnchor(anchors) ==
    IF FirstAnchor(anchors, IsPdfAnchor) # 0 THEN FirstAnchor(anchors, IsPdfAnchor)
    ELSE IF FirstAnchor(anchors, IsSuggestiveAnchor) # 0
         THEN FirstAnchor(anchors, IsSuggestiveAnchor)
    ELSE FirstAnchor(anchors, HasHref)

\* what the claim has a row emit
DocumentsOfRow(row) ==
    IF stripTags(row.title) = <<>> \/ PreferredAnchor(row.anchors) = 0 THEN <<>>
    ELSE <<[year |-> YearOf(stripTags(row.title)),
            type |-> TypeOf(stripTags(row.title)),
            source_url |-> absUrl(row.anchors[PreferredAnchor(row.anchors)].href),
            title |-> stripTags(row.title)]>>

C23_OneDocumentPerTitledLinkedRow ==
    \A r \in active :
        /\ h[r].pc = "docs" =>
               \A rows \in ListingsIn(scope) :
                   Docs(h[r], [kind |-> "ok", rows |-> rows]).docs
                       = Concat([k \in 1..Len(rows) |-> DocumentsOfRow(rows[k])])
        /\ (h[r].strategy = "http" /\ h[r].pc = "close_page") =>
               \A i \in Responses(h[r], 200) :
                   /\ h[r].sent[i].body.all_documents = h[r].docs
                   /\ \A k \in 1..Len(h[r].docs) : h[r].docs[k].title # <<>>

\* the HTTP strategy has answered with the .pdf link of a row whose first
\* anchor is a suggestive one
C23_Witness ==
    \E r \in active :
        /\ h[r].strategy = "http"
        /\ \E i \in Responses(h[r], 200) :
               /\ Len(h[r].sent[i].body.all_documents) = 1
               /\ h[r].sent[i].body.all_documents[1].source_url
                      = Origin \o <<"/", "p", ".", "P", "D", "F">>
               /\ h[r].sent[i].body.all_documents[1].type = TypeAis

(***************************************************************************)
(* C24.  For every title, the type is AIS if the title holds, ignoring     *)
(* case, "annual information statement" or "ais" as a word of its own;     *)
(* otherwise Financial Report if it holds "financial"; otherwise Other.    *)
(* "ais" inside a longer word does not make a title AIS, and a title that  *)
(* matches both rules is AIS.  The year is the first standalone 4-digit    *)
(* number that starts with "20", else null.                                *)
(***************************************************************************)
\* p occurs in s, ignoring case, with no word character next to it
HasWordCI(s, p) ==
    \E i \in 1..Len(s) :
        /\ MatchesAtCI(s, p, i)
        /\ (i = 1 \/ ~IsWordChar(s[i - 1]))
        /\ (i + Len(p) - 1 = Len(s) \/ ~IsWordChar(s[i + Len(p)]))

TypeByWord(title) ==
    IF ContainsCI(title, KwAnnual) \/ HasWordCI(title, KwAis) THEN TypeAis
    ELSE IF ContainsCI(title, KwFinancial) THEN TypeFr
    ELSE TypeOther

\* the value of the first standalone 20dd in the title, None without one
FirstYear(title) ==
    LET at == {i \in 1..Len(title) : YearMatchAt(title, i)}
    IN  IF at = {} THEN None
        ELSE LET i == CHOOSE j \in at : \A k \in at : j <= k
             IN  Some(2000 + 10 * DigitVal(title[i + 2]) + DigitVal(title[i + 3]))

ClassifiedByWord(docs) ==
    \A k \in 1..Len(docs) :
        /\ docs[k].type = TypeByWord(docs[k].title)
        /\ docs[k].year = FirstYear(docs[k].title)

C24_ClassificationByWord ==
    \A r \in active :
        /\ h[r].pc = "docs" =>
               \A rows \in ListingsIn(scope) :
                   ClassifiedByWord(Docs(h[r], [kind |-> "ok", rows |-> rows]).docs)
        /\ h[r].pc = "rows" =>
               \A rows \in ListingsIn(scope) :
                   ClassifiedByWord(Rows(h[r], [kind |-> "ok", rows |-> rows]).docs)

(***************************************************************************)
(* C25.  In the browser-first handler, for every listing read from the     *)
(* rendered page, a listing with two or more AIS documents that have a     *)
(* year included, the latest selection raises nothing and gives for AIS    *)
(* and for Financial Report the document of the greatest year of that      *)
(* type: reading a non-empty listing never ends in the error response.     *)
(***************************************************************************)
SelectsLatest(s, rows) ==
    LET t == BfRows(s, TRUE, FALSE, TRUE, [kind |-> "ok", rows |-> rows], PREVIEW_DEFAULT)
    IN  /\ Responses(t, 500) = {}
        /\ IsLatest(t.docs, TypeAis, t.latestAis)
        /\ IsLatest(t.docs, TypeFr, t.latestFr)

C25_BrowserFirstLatestNeverRaises ==
    \A r \in active :
        h[r].pc = "bf_rows" =>
            \A rows \in ListingsIn(scope) : rows # <<>> => SelectsLatest(h[r], rows)

(***************************************************************************)
(* C26.  Every request the HTTP-first handler accepts receives exactly one *)
(* response: no path sends a second response after one has been sent, and  *)
(* when the handler has finished, on whatever path (invalid identifier,    *)
(* HTTP success, browser success, browser failure at any point, the launch *)
(* of the browser included), one response has been sent.                   *)
(***************************************************************************)
C26_ExactlyOneResponse ==
    \A r \in active :
        /\ Len(h[r].sent) <= 1
        /\ h[r].pc = "done" => Len(h[r].sent) = 1

====
